---- MODULE Spec2Model ----
(***************************************************************************)
(* nsrb: fixed-capacity circular buffers generated by the ring! and manx!  *)
(* macros (src/src/ring.rs, src/src/manx.rs).                              *)
(*                                                                         *)
(* One buffer object is modelled per behaviour.  `kind` says which macro   *)
(* arm generated it:                                                       *)
(*   "ring"   ring!(Name[T; size])          checked, usize head / tail     *)
(*   "uring"  ring!(@unchecked($int) Name[T]) head / tail of type $int     *)
(*   "manx"   manx!(Name[T; size])          checked, usize head, no tail   *)
(*   "umanx"  manx!(@unchecked($int) Name[T]) head of type $int, no tail   *)
(*   "lring"  ring!(@unchecked(u8) Name, T) of src/src/lib.rs, the former  *)
(*            version of the unchecked ring: u8 head / tail                *)
(* The element type T is usize, as in the crate's tests; arrays are        *)
(* functions over 0 .. len-1.                                              *)
(*                                                                         *)
(* `head += 1` on a fixed-width index depends on the build.  No manifest   *)
(* in src/ sets a profile, so both outcomes of rustc are modelled, chosen  *)
(* when the object is made (field `checks` of an unchecked buffer):        *)
(*   checks = TRUE   overflow checks on (debug and test builds): the       *)
(*                   addition at <$int>::MAX panics with "attempt to add   *)
(*                   with overflow" and leaves the index as it was         *)
(*   checks = FALSE  overflow checks off (-O, release builds): the         *)
(*                   addition wraps modulo 2^bits                          *)
(* The checked buffers index with usize and compare before they add, so    *)
(* the two builds run the same code for them.                              *)
(***************************************************************************)
EXTENDS Integers, Sequences, FiniteSets, TLC

VARIABLES kind, param, rb, panicked, op, ret, hist, track, npush, twin

vars == <<kind, param, rb, panicked, op, ret, hist, track, npush, twin>>

(***************************************************************************)
(* Bounds of the exploration.                                              *)
(***************************************************************************)
\* largest $size of a checked buffer that is given every run of calls
MaxCap == 4
\* longest recorded run of operations on a checked buffer
MaxOps == 7
\* most pushes made on an unchecked 8-bit ring
MaxPushU == 258
\* most pushes made on an unchecked 16-bit ring
MaxPushWide == 3
\* most pushes made on an unchecked manx
MaxPushM == 332
\* most pushes made on a checked buffer of the tests' size
MaxPushC == 16
\* the items pushed on a checked buffer
Values == {1, 2}

(***************************************************************************)
(* Program constants.                                                      *)
(***************************************************************************)
\* $crate::NSRB_LOWER_LIMIT
NSRB_LOWER_LIMIT == 2
\* $crate::NSRB_UPPER_LIMIT
NSRB_UPPER_LIMIT == 65535
\* width of $int in ring!(@unchecked(u8) ...) and manx!(@unchecked(u8) ...)
U8_BITS == 8
\* width of $int in manx!(@unchecked(u16) ...)
U16_BITS == 16
\* width of $int in ring!(@unchecked(u32) ...) and manx!(@unchecked(u32) ...)
U32_BITS == 32
\* $size of ring!(RbPP[usize;10]) and manx!(Mb[usize;10])
TestCap == 10
\* <usize>::default()
Default == 0

\* Option<&T>
None == <<>>
Some(v) == <<v>>

\* <$int>::MAX for an unsigned integer type of `bits` bits
IntMax(bits) == 2 ^ bits - 1

\* <$int>::MAX as usize <= limit, for an $int of `bits` bits.  u32::MAX is
\* beyond the integers of the model checker, so both sides are compared by
\* their quarters: 2^bits - 1 <= limit  iff  2^bits <= limit + 1  iff
\* 2^(bits-2) <= (limit + 1) \div 4, the left side being an integer.
IntMaxWithin(bits, limit) == 2 ^ (bits - 2) <= (limit + 1) \div 4

(***************************************************************************)
(* ring!(Name[T; size]): the checked ring buffer.                          *)
(***************************************************************************)
\* $size, the length of the backing array
Size(self) == Cardinality(DOMAIN self.buffer)

\* new() without its first assert!
ring_new_asserts_upper_only(size) == size <= NSRB_UPPER_LIMIT

\* the two assert! of new(), compiled in without the no_limit feature
ring_new_asserts(size) ==
    /\ size >= NSRB_LOWER_LIMIT
    /\ size <= NSRB_UPPER_LIMIT

ring_new(size) ==
    [tail |-> 0, head |-> 0, buffer |-> [i \in 0 .. size - 1 |-> Default]]

\* push_tail wrapping one position late (`>` for `>=`)
push_tail_wraps_late(self) ==
    IF self.tail > Size(self) - 1
    THEN [self EXCEPT !.tail = 0]
    ELSE [self EXCEPT !.tail = self.tail + 1]

\* push_tail wrapping one position early
push_tail_wraps_early(self) ==
    IF self.tail >= Size(self) - 2
    THEN [self EXCEPT !.tail = 0]
    ELSE [self EXCEPT !.tail = self.tail + 1]

\* push_tail that leaves tail where it is
push_tail_stays(self) == self

push_tail(self) ==
    IF self.tail >= Size(self) - 1
    THEN [self EXCEPT !.tail = 0]
    ELSE [self EXCEPT !.tail = self.tail + 1]

\* push_head that never pushes the tail
push_head_keeps_tail(self) ==
    IF self.head >= Size(self) - 1
    THEN [self EXCEPT !.head = 0]
    ELSE [self EXCEPT !.head = self.head + 1]

\* push_head comparing head with tail before it moves head
push_head_checks_first(self) ==
    LET pushed == IF self.head = self.tail THEN push_tail(self) ELSE self
    IN  IF pushed.head >= Size(pushed) - 1
        THEN [pushed EXCEPT !.head = 0]
        ELSE [pushed EXCEPT !.head = pushed.head + 1]

push_head(self) ==
    LET moved == IF self.head >= Size(self) - 1
                 THEN [self EXCEPT !.head = 0]
                 ELSE [self EXCEPT !.head = self.head + 1]
    IN  IF moved.head = moved.tail THEN push_tail(moved) ELSE moved

\* self.buffer[i] panics unless i is an index of the array
IndexOk(self, i) == i \in DOMAIN self.buffer

\* push storing the item after head has moved
ring_push_stores_late(self, item) ==
    LET moved == push_head(self)
    IN  [moved EXCEPT !.buffer[moved.head] = item]

\* push that refuses the new item while the ring is full, keeping the oldest
ring_push_drops_newest(self, item) ==
    LET next == IF self.head >= Size(self) - 1 THEN 0 ELSE self.head + 1
    IN  IF next = self.tail
        THEN self
        ELSE [self EXCEPT !.buffer[self.head] = item, !.head = next]

\* push that resets the slot of the element it evicts
ring_push_wipes_evicted(self, item) ==
    LET pushed == push_head([self EXCEPT !.buffer[self.head] = item])
    IN  IF pushed.tail # self.tail
        THEN [pushed EXCEPT !.buffer[self.tail] = Default]
        ELSE pushed

ring_push(self, item) ==
    push_head([self EXCEPT !.buffer[self.head] = item])

\* pop reading the slot at tail after tail has moved
ring_pop_reads_late(self) ==
    IF self.tail # self.head
    THEN [self |-> push_tail(self),
          ret  |-> Some(self.buffer[push_tail(self).tail])]
    ELSE [self |-> self, ret |-> None]

\* the buffer after pop() and the Option it returns
\* pop that takes the element out, leaving the default in its slot
ring_pop_takes(self) ==
    IF self.tail # self.head
    THEN [self |-> push_tail([self EXCEPT !.buffer[self.tail] = Default]),
          ret  |-> Some(self.buffer[self.tail])]
    ELSE [self |-> self, ret |-> None]

\* pop without the emptiness test: tail may pass head
ring_pop_unguarded(self) ==
    [self |-> push_tail(self), ret |-> Some(self.buffer[self.tail])]

ring_pop(self) ==
    IF self.tail # self.head
    THEN [self |-> push_tail(self), ret |-> Some(self.buffer[self.tail])]
    ELSE [self |-> self, ret |-> None]

\* clear assigning the wrong way round
ring_clear_moves_head(self) == [self EXCEPT !.head = self.tail]

\* clear rewinding tail to the start of the array
ring_clear_rewinds(self) == [self EXCEPT !.tail = 0]

\* RbExtra::clear
\* clear that does nothing
ring_clear_noop(self) == self

ring_clear(self) == [self EXCEPT !.tail = self.head]

\* len without the wrapped case
ring_len_unwrapped(self) == self.head - self.tail

\* RbExtra::len
ring_len(self) ==
    IF self.tail > self.head
    THEN Size(self) + self.head - self.tail
    ELSE self.head - self.tail

(***************************************************************************)
(* ring!(@unchecked($int) Name[T]): head and tail advance by `+= 1`.       *)
(***************************************************************************)
\* the assert! of new() with `<` for `<=`
uring_new_asserts_strict(bits) == IntMaxWithin(bits, NSRB_UPPER_LIMIT - 1)

uring_new_asserts(bits) == IntMaxWithin(bits, NSRB_UPPER_LIMIT)

\* `checks`: whether the build has overflow checks on
uring_new(bits, checks) ==
    [bits |-> bits, checks |-> checks, tail |-> 0, head |-> 0,
     buffer |-> [i \in 0 .. IntMax(bits) |-> Default]]

\* x += 1 with overflow checks off
wrapping_inc(x, bits) == (x + 1) % (2 ^ bits)

\* x += 1 on an unsigned integer of `bits` bits: the value x is left with
\* and whether the statement panicked
add_one(x, bits, checks) ==
    IF checks /\ x = IntMax(bits)
    THEN [val |-> x, panic |-> TRUE]
    ELSE [val |-> wrapping_inc(x, bits), panic |-> FALSE]

\* push that never moves tail
uring_push_keeps_tail(self, item) ==
    LET stored == [self EXCEPT !.buffer[self.head] = item]
        h      == add_one(self.head, self.bits, self.checks)
    IN  [self |-> [stored EXCEPT !.head = h.val], panic |-> h.panic]

\* the object the call leaves behind and whether the call panicked
uring_push(self, item) ==
    LET stored == [self EXCEPT !.buffer[self.head] = item]
        h      == add_one(self.head, self.bits, self.checks)
        moved  == [stored EXCEPT !.head = h.val]
        t      == add_one(self.tail, self.bits, self.checks)
    IN  IF h.panic
        THEN [self |-> stored, panic |-> TRUE]
        ELSE IF moved.head = moved.tail
             THEN [self |-> [moved EXCEPT !.tail = t.val], panic |-> t.panic]
             ELSE [self |-> moved, panic |-> FALSE]

\* pop without the emptiness test
uring_pop_unguarded(self) ==
    LET t == add_one(self.tail, self.bits, self.checks)
    IN  [self  |-> [self EXCEPT !.tail = t.val],
         ret   |-> IF t.panic THEN None ELSE Some(self.buffer[self.tail]),
         panic |-> t.panic]

\* `self.tail += 1` comes before the slot is borrowed: a panicking pop
\* returns nothing
uring_pop(self) ==
    LET t == add_one(self.tail, self.bits, self.checks)
    IN  IF self.tail # self.head
        THEN [self  |-> [self EXCEPT !.tail = t.val],
              ret   |-> IF t.panic THEN None ELSE Some(self.buffer[self.tail]),
              panic |-> t.panic]
        ELSE [self |-> self, ret |-> None, panic |-> FALSE]

\* RbExtra::clear of tests_unchecked
uring_clear(self) == [self EXCEPT !.tail = self.head]

\* RbExtra::len of tests_unchecked
uring_len(self) ==
    IF self.tail > self.head
    THEN Size(self) + self.head - self.tail
    ELSE self.head - self.tail

(***************************************************************************)
(* manx!(Name[T; size]) and manx!(@unchecked($int) Name[T]).               *)
(***************************************************************************)
manx_new_asserts(size) ==
    /\ size >= NSRB_LOWER_LIMIT
    /\ size <= NSRB_UPPER_LIMIT

manx_new(size) ==
    [head |-> 0, buffer |-> [i \in 0 .. size - 1 |-> Default]]

\* manx push wrapping one position late (`>` for `>=`)
manx_push_wraps_late(self, item) ==
    LET stored == [self EXCEPT !.buffer[self.head] = item]
    IN  IF self.head > Size(self) - 1
        THEN [stored EXCEPT !.head = 0]
        ELSE [stored EXCEPT !.head = self.head + 1]

\* manx push that moves head before it stores
manx_push_stores_late(self, item) ==
    LET next == IF self.head >= Size(self) - 1 THEN 0 ELSE self.head + 1
    IN  [self EXCEPT !.buffer[next] = item, !.head = next]

manx_push(self, item) ==
    LET stored == [self EXCEPT !.buffer[self.head] = item]
    IN  IF self.head >= Size(self) - 1
        THEN [stored EXCEPT !.head = 0]
        ELSE [stored EXCEPT !.head = self.head + 1]

\* items() handing out the slots oldest first instead of in storage order
manx_items_chronological(self) ==
    [i \in DOMAIN self.buffer |->
        self.buffer[(self.head + i) % Size(self)]]

manx_items(self) == self.buffer

\* the assert! of new() bounding the number of slots, <$int>::MAX + 1
umanx_new_asserts_counts_slots(bits) ==
    IntMaxWithin(bits, NSRB_UPPER_LIMIT - 1)

umanx_new_asserts(bits) == IntMaxWithin(bits, NSRB_UPPER_LIMIT)

umanx_new(bits, checks) ==
    [bits |-> bits, checks |-> checks, head |-> 0,
     buffer |-> [i \in 0 .. IntMax(bits) |-> Default]]

\* unchecked manx push that moves head before it stores
umanx_push_stores_late(self, item) ==
    LET h == add_one(self.head, self.bits, self.checks)
    IN  [self  |-> [self EXCEPT !.buffer[h.val] = item, !.head = h.val],
         panic |-> h.panic]

\* the object the call leaves behind and whether the call panicked
umanx_push(self, item) ==
    LET h == add_one(self.head, self.bits, self.checks)
    IN  [self  |-> [self EXCEPT !.buffer[self.head] = item, !.head = h.val],
         panic |-> h.panic]

umanx_items(self) == self.buffer

(***************************************************************************)
(* ring_core!(@unchecked($size_type) ...) of src/src/lib.rs.               *)
(***************************************************************************)
\* the struct literal of new(): <$size_type>::MAX slots, no assert!
lring_new(bits, checks) ==
    [bits |-> bits, checks |-> checks, tail |-> 0, head |-> 0,
     buffer |-> [i \in 0 .. IntMax(bits) - 1 |-> Default]]

\* head and tail are declared u8 whatever $size_type is
lring_push(self, item) ==
    LET stored == [self EXCEPT !.buffer[self.head] = item]
        h      == add_one(self.head, U8_BITS, self.checks)
        moved  == [stored EXCEPT !.head = h.val]
        t      == add_one(self.tail, U8_BITS, self.checks)
    IN  IF h.panic
        THEN [self |-> stored, panic |-> TRUE]
        ELSE IF moved.head = moved.tail
             THEN [self |-> [moved EXCEPT !.tail = t.val], panic |-> t.panic]
             ELSE [self |-> moved, panic |-> FALSE]

lring_pop(self) ==
    LET t == add_one(self.tail, U8_BITS, self.checks)
    IN  IF self.tail # self.head
        THEN [self  |-> [self EXCEPT !.tail = t.val],
              ret   |-> IF t.panic THEN None ELSE Some(self.buffer[self.tail]),
              panic |-> t.panic]
        ELSE [self |-> self, ret |-> None, panic |-> FALSE]

lring_clear(self) == [self EXCEPT !.tail = self.head]

(***************************************************************************)
(* The state machine.                                                      *)
(*   param     the macro parameter: $size of a checked buffer, the width   *)
(*             in bits of $int of an unchecked one                         *)
(*   rb        the buffer object                                           *)
(*   panicked  a panic (failed assert!, index out of bounds, overflow of   *)
(*             `+= 1` with overflow checks on) has unwound                 *)
(*   op, ret   the last call made and what it returned (None for `()`)     *)
(*   hist      the calls made since new(), with their arguments / results, *)
(*             recorded when `track` holds                                 *)
(*   npush     number of push calls since new()                            *)
(*   twin      a second checked ring given the same calls as rb: for a     *)
(*             checked rb, one constructed by new() at the moment rb was   *)
(*             last cleared; for an unchecked rb, one of 2^bits slots      *)
(*             constructed together with rb, when new() of the checked     *)
(*             ring accepts that many slots (u8: 256; u16: 65536 is above  *)
(*             NSRB_UPPER_LIMIT, so there is none)                         *)
(***************************************************************************)
Call(o, v) == [op |-> o, val |-> v]

Logged(o, v) == IF track THEN Append(hist, Call(o, v)) ELSE hist

NoTwin == [live |-> FALSE, rb |-> ring_new(1), ret |-> None]

\* what new() leaves behind when an assert! fails: no object
NoObject == [head |-> 0, buffer |-> <<>>]

\* the $size of the checked buffers constructed: the small ones, the tests'
\* size, and the sizes around the two limits
CheckedSizes ==
    (NSRB_LOWER_LIMIT - 1 .. MaxCap)
        \cup {TestCap, NSRB_UPPER_LIMIT, NSRB_UPPER_LIMIT + 1}

\* the $int of the unchecked buffers constructed: u8, u16, u32
IntBits == {U8_BITS, U16_BITS, U32_BITS}

InitRing ==
    /\ kind = "ring"
    /\ param \in CheckedSizes
    /\ panicked = ~ring_new_asserts(param)
    /\ rb = IF panicked THEN NoObject ELSE ring_new(param)
    /\ track = TRUE
    /\ twin = NoTwin

InitURing ==
    /\ kind = "uring"
    /\ param \in IntBits
    /\ panicked = ~uring_new_asserts(param)
    /\ rb \in IF panicked
              THEN {NoObject}
              ELSE {uring_new(param, checks) : checks \in BOOLEAN}
    /\ track \in IF param = U8_BITS THEN BOOLEAN ELSE {FALSE}
    /\ twin = IF panicked
              THEN NoTwin
              ELSE IF ring_new_asserts(2 ^ param)
                   THEN [live |-> TRUE, rb |-> ring_new(2 ^ param),
                         ret |-> None]
                   ELSE NoTwin

InitManx ==
    /\ kind = "manx"
    /\ param \in CheckedSizes
    /\ panicked = ~manx_new_asserts(param)
    /\ rb = IF panicked THEN NoObject ELSE manx_new(param)
    /\ track = (param <= MaxCap)
    /\ twin = NoTwin

InitUManx ==
    /\ kind = "umanx"
    /\ param \in IntBits
    /\ panicked = ~umanx_new_asserts(param)
    /\ rb \in IF panicked
              THEN {NoObject}
              ELSE {umanx_new(param, checks) : checks \in BOOLEAN}
    /\ track = FALSE
    /\ twin = NoTwin

InitLRing ==
    /\ kind = "lring"
    /\ param = U8_BITS
    /\ panicked = FALSE
    /\ rb \in {lring_new(param, checks) : checks \in BOOLEAN}
    /\ track = FALSE
    /\ twin = NoTwin

Init ==
    /\ InitUManx \/ InitManx \/ InitURing \/ InitRing \/ InitLRing
    /\ op = "new"
    /\ ret = None
    /\ hist = <<>>
    /\ npush = 0

\* A checked buffer of at most MaxCap slots is given every sequence of calls
\* of at most MaxOps calls, with items out of Values.  A buffer of the tests'
\* size is given the calls of the tests: pushes of i = 0, 1, ... (ring) or
\* i = 1, 2, ... (manx, whose calls are not recorded), then reads.  The
\* buffers at NSRB_UPPER_LIMIT are constructed only.  The unchecked buffers
\* are given the pushes of their tests too: i = 0, 1, ... on a ring and
\* i = 1, 2, ... on a manx.
Small == param <= MaxCap
Scripted == param = TestCap

\* the item of the n-th push (n = 0, 1, ...) of a test on a buffer of the
\* tests' size or on an unchecked manx: the ring tests push i from 0, the
\* manx tests push i from 1
TestItems(n) == IF kind = "ring" THEN {n} ELSE {n + 1}

\* the item of the n-th push (n = 0, 1, ...) on an unchecked ring:
\* `for i in 0 .. { rb.push(i) }`
Items(n) == {n}

\* an unchecked run whose calls are recorded is new(), pushes, then pops
Filling == \A i \in 1 .. Len(hist) : hist[i].op = "push"

Drained ==
    /\ Len(hist) >= 2
    /\ hist[Len(hist)] = Call("pop", None)
    /\ hist[Len(hist) - 1] = Call("pop", None)

\* rb.push(item) on a checked ring
RingPush ==
    /\ kind = "ring" /\ ~panicked
    /\ \/ Small /\ Len(hist) < MaxOps
       \/ Scripted /\ Filling /\ npush < MaxPushC
    /\ \E item \in IF Small THEN Values ELSE TestItems(npush) :
          /\ IF IndexOk(rb, rb.head)
             THEN rb' = ring_push(rb, item) /\ panicked' = FALSE
             ELSE rb' = rb /\ panicked' = TRUE
          /\ hist' = Logged("push", Some(item))
          /\ twin' = IF twin.live
                     THEN [twin EXCEPT !.rb = ring_push(twin.rb, item)]
                     ELSE twin
    /\ op' = "push"
    /\ ret' = None
    /\ npush' = npush + 1
    /\ UNCHANGED <<kind, param, track>>

\* rb.pop() on a checked ring
RingPop ==
    /\ kind = "ring" /\ ~panicked
    /\ \/ Small /\ Len(hist) < MaxOps
       \/ Scripted /\ ~Drained
    /\ IF rb.tail = rb.head \/ IndexOk(rb, rb.tail)
       THEN rb' = ring_pop(rb).self /\ ret' = ring_pop(rb).ret /\ panicked' = FALSE
       ELSE rb' = rb /\ ret' = None /\ panicked' = TRUE
    /\ hist' = Logged("pop", ret')
    /\ twin' = IF twin.live
               THEN [twin EXCEPT !.rb = ring_pop(twin.rb).self,
                                 !.ret = ring_pop(twin.rb).ret]
               ELSE twin
    /\ op' = "pop"
    /\ UNCHANGED <<kind, param, track, npush>>

\* rb.clear() on a checked ring (RbExtra)
RingClear ==
    /\ kind = "ring" /\ ~panicked /\ Small /\ Len(hist) < MaxOps
    /\ rb' = ring_clear(rb)
    /\ hist' = Logged("clear", None)
    /\ twin' = [live |-> TRUE, rb |-> ring_new(Size(rb)), ret |-> None]
    /\ op' = "clear"
    /\ ret' = None
    /\ UNCHANGED <<kind, param, panicked, track, npush>>

\* rb.push(item) on an unchecked ring
URingPush ==
    /\ kind = "uring" /\ ~panicked
    /\ npush < (IF param = U8_BITS THEN MaxPushU ELSE MaxPushWide)
    /\ track => Filling
    /\ \E item \in Items(npush) :
          /\ IF IndexOk(rb, rb.head)
             THEN /\ rb' = uring_push(rb, item).self
                  /\ panicked' = uring_push(rb, item).panic
             ELSE rb' = rb /\ panicked' = TRUE
          /\ hist' = Logged("push", Some(item))
          /\ twin' = IF twin.live
                     THEN [twin EXCEPT !.rb = ring_push(twin.rb, item),
                                       !.ret = None]
                     ELSE twin
    /\ op' = "push"
    /\ ret' = None
    /\ npush' = npush + 1
    /\ UNCHANGED <<kind, param, track>>

\* rb.pop() on an unchecked ring
URingPop ==
    /\ kind = "uring" /\ ~panicked
    /\ track => ~Drained
    /\ IF rb.tail = rb.head \/ IndexOk(rb, rb.tail)
       THEN /\ rb' = uring_pop(rb).self
            /\ ret' = uring_pop(rb).ret
            /\ panicked' = uring_pop(rb).panic
       ELSE /\ rb' = [rb EXCEPT !.tail = add_one(rb.tail, rb.bits, rb.checks).val]
            /\ ret' = None
            /\ panicked' = TRUE
    /\ hist' = Logged("pop", ret')
    /\ twin' = IF twin.live
               THEN [twin EXCEPT !.rb = ring_pop(twin.rb).self,
                                 !.ret = ring_pop(twin.rb).ret]
               ELSE twin
    /\ op' = "pop"
    /\ UNCHANGED <<kind, param, track, npush>>

\* rb.clear() on an unchecked ring (RbExtra of tests_unchecked)
URingClear ==
    /\ kind = "uring" /\ ~panicked /\ ~track
    /\ rb' = uring_clear(rb)
    /\ twin' = IF twin.live
               THEN [twin EXCEPT !.rb = ring_clear(twin.rb), !.ret = None]
               ELSE twin
    /\ op' = "clear"
    /\ ret' = None
    /\ UNCHANGED <<kind, param, panicked, hist, track, npush>>

\* mb.push(item) on a checked manx
ManxPush ==
    /\ kind = "manx" /\ ~panicked
    /\ \/ Small /\ Len(hist) < MaxOps
       \/ Scripted /\ npush < MaxPushC
    /\ \E item \in IF Small THEN Values ELSE TestItems(npush) :
          /\ IF IndexOk(rb, rb.head)
             THEN rb' = manx_push(rb, item) /\ panicked' = FALSE
             ELSE rb' = rb /\ panicked' = TRUE
          /\ hist' = Logged("push", Some(item))
    /\ op' = "push"
    /\ ret' = None
    /\ npush' = npush + 1
    /\ UNCHANGED <<kind, param, track, twin>>

\* mb.items() on a checked manx
ManxItems ==
    /\ kind = "manx" /\ ~panicked
    /\ \/ Small /\ Len(hist) < MaxOps
       \/ Scripted /\ op # "items"
    /\ ret' = manx_items(rb)
    /\ hist' = Logged("items", ret')
    /\ op' = "items"
    /\ UNCHANGED <<kind, param, rb, panicked, track, npush, twin>>

\* mb.push(item) on an unchecked manx
UManxPush ==
    /\ kind = "umanx" /\ ~panicked /\ npush < MaxPushM
    /\ \E item \in TestItems(npush) :
          IF IndexOk(rb, rb.head)
          THEN /\ rb' = umanx_push(rb, item).self
               /\ panicked' = umanx_push(rb, item).panic
          ELSE rb' = rb /\ panicked' = TRUE
    /\ op' = "push"
    /\ ret' = None
    /\ npush' = npush + 1
    /\ UNCHANGED <<kind, param, hist, track, twin>>

\* mb.items() on an unchecked manx
UManxItems ==
    /\ kind = "umanx" /\ ~panicked
    /\ ret' = umanx_items(rb)
    /\ op' = "items"
    /\ UNCHANGED <<kind, param, rb, panicked, hist, track, npush, twin>>

\* rb.push(item) on a ring of lib.rs; self.buffer[self.head as usize] panics
\* when head is no index of the array
LRingPush ==
    /\ kind = "lring" /\ ~panicked /\ npush < MaxPushU
    /\ \E item \in Items(npush) :
          IF IndexOk(rb, rb.head)
          THEN /\ rb' = lring_push(rb, item).self
               /\ panicked' = lring_push(rb, item).panic
          ELSE rb' = rb /\ panicked' = TRUE
    /\ op' = "push"
    /\ ret' = None
    /\ npush' = npush + 1
    /\ UNCHANGED <<kind, param, hist, track, twin>>

\* rb.pop() on a ring of lib.rs
LRingPop ==
    /\ kind = "lring" /\ ~panicked
    /\ IF rb.tail = rb.head \/ IndexOk(rb, rb.tail)
       THEN /\ rb' = lring_pop(rb).self
            /\ ret' = lring_pop(rb).ret
            /\ panicked' = lring_pop(rb).panic
       ELSE /\ rb' = [rb EXCEPT !.tail = add_one(rb.tail, U8_BITS, rb.checks).val]
            /\ ret' = None
            /\ panicked' = TRUE
    /\ op' = "pop"
    /\ UNCHANGED <<kind, param, hist, track, npush, twin>>

\* rb.clear() on a ring of lib.rs
LRingClear ==
    /\ kind = "lring" /\ ~panicked
    /\ rb' = lring_clear(rb)
    /\ op' = "clear"
    /\ ret' = None
    /\ UNCHANGED <<kind, param, panicked, hist, track, npush, twin>>

Next ==
    \/ RingPush \/ RingPop \/ RingClear
    \/ URingPush \/ URingPop \/ URingClear
    \/ ManxPush \/ ManxItems
    \/ UManxPush \/ UManxItems
    \/ LRingPush \/ LRingPop \/ LRingClear

Spec == Init /\ [][Next]_vars

(***************************************************************************)
(* Vocabulary of the properties.                                           *)
(***************************************************************************)
IsRing == kind = "ring" /\ ~panicked
IsURing == kind = "uring" /\ ~panicked
IsAnyRing == IsRing \/ IsURing
\* the ring of lib.rs, as opposed to the buffers of ring.rs and manx.rs
IsLRing == kind = "lring"

\* calls a .. b of the run are all `o`
AllCalls(a, b, o) == \A i \in a .. b : hist[i].op = o

\* the run holds push and pop calls only
PushPopOnly == \A i \in 1 .. Len(hist) : hist[i].op \in {"push", "pop"}

\* The abstract queue after the first n calls of the run: a FIFO bounded at
\* cap - 1 elements that drops its oldest element on a push while full.
RECURSIVE Fifo(_, _)
Fifo(n, cap) ==
    IF n = 0 THEN <<>>
    ELSE LET q == Fifo(n - 1, cap)
             c == hist[n]
         IN  CASE c.op = "push" ->
                     IF Len(q) = cap - 1
                     THEN Append(Tail(q), c.val[1])
                     ELSE Append(q, c.val[1])
               [] c.op = "pop" -> IF q = <<>> THEN q ELSE Tail(q)
               [] OTHER -> <<>>

\* what the abstract queue answers to the pop that is call n
FifoPop(n, cap) ==
    IF Fifo(n - 1, cap) = <<>> THEN None ELSE Some(Head(Fifo(n - 1, cap)))

\* number of consecutive pop calls on `self` that return a value, counted
\* by calling pop at most `fuel` times
RECURSIVE Readable(_, _)
Readable(self, fuel) ==
    IF fuel = 0 \/ ring_pop(self).ret = None
    THEN 0
    ELSE 1 + Readable(ring_pop(self).self, fuel - 1)

Live(self) == Readable(self, Size(self) + 1)

\* C1: the pops of a checked ring of capacity N >= 2, in any run of push and
\* pop calls from new(), return what the abstract FIFO bounded at N-1 that
\* drops its oldest element returns: the oldest retained element, and none
\* exactly when the abstract queue is empty.
C1_FifoRefinement ==
    (IsRing /\ PushPopOnly) =>
        /\ \A n \in 1 .. Len(hist) :
              hist[n].op = "pop" => hist[n].val = FifoPop(n, Size(rb))
        /\ Live(rb) = Len(Fifo(Len(hist), Size(rb)))

\* a pop that returned a value after the ring had overflowed
C1_Witness ==
    /\ IsRing /\ PushPopOnly
    /\ Len(hist) > Size(rb)
    /\ AllCalls(1, Size(rb), "push")
    /\ hist[Size(rb) + 1].op = "pop"
    /\ hist[Size(rb) + 1].val # None

\* C2: in every reachable state of a checked ring of capacity N,
\* 0 <= head < N and 0 <= tail < N.
C2_IndexRange ==
    IsRing =>
        /\ 0 <= rb.head /\ rb.head < Size(rb)
        /\ 0 <= rb.tail /\ rb.tail < Size(rb)

\* the N-th push has wrapped head to 0, which pushed tail to 1
C2_Witness ==
    /\ IsRing
    /\ Size(rb) = MaxCap
    /\ npush = Size(rb)
    /\ rb.head = 0
    /\ rb.tail = 1

\* C3: a checked ring of capacity N never holds more than N-1 readable
\* elements, holds none exactly when head = tail, and after K >= N-1 pushes
\* and no other call from new() len() = N-1.
C3_AtMostCapMinusOne ==
    IsRing =>
        /\ Live(rb) <= Size(rb) - 1
        /\ (Live(rb) = 0) <=> (rb.head = rb.tail)
        /\ (Len(hist) >= Size(rb) - 1 /\ AllCalls(1, Len(hist), "push"))
              => ring_len(rb) = Size(rb) - 1

\* more pushes than slots, no pop: the ring is full with N-1 elements
C3_Witness ==
    /\ IsRing
    /\ Len(hist) > Size(rb)
    /\ AllCalls(1, Len(hist), "push")
    /\ Live(rb) = Size(rb) - 1
    /\ rb.head # rb.tail

\* the run is known to have left the ring empty after call s: it was just
\* constructed, just cleared, or a pop has just returned none
EmptyAt(s) ==
    \/ s = 0
    \/ hist[s].op = "clear"
    \/ hist[s] = Call("pop", None)

\* calls s+1 .. Len(hist) are k pushes followed by k pops, 1 <= k <= capacity-1
FillThenDrain(s, k) ==
    /\ Len(hist) - s = 2 * k
    /\ k >= 1
    /\ k <= Size(rb) - 1
    /\ AllCalls(s + 1, s + k, "push")
    /\ AllCalls(s + k + 1, s + 2 * k, "pop")

\* C4: from an empty ring (checked, or unchecked with its 2^bits slots),
\* K <= capacity-1 pushes followed by K pops return the K pushed values in
\* the order they were pushed and leave the ring empty.  For the recorded
\* runs this is read off the record; for an unchecked ring in any empty
\* state it is stated for K = 1: the push returns, and the pop after it
\* returns the pushed value and leaves the ring empty.
C4_RoundTrip ==
    /\ [](IsAnyRing =>
            \A s \in 0 .. Len(hist) :
                (EmptyAt(s) /\ FillThenDrain(s, (Len(hist) - s) \div 2)) =>
                    /\ \A i \in 1 .. (Len(hist) - s) \div 2 :
                          hist[s + (Len(hist) - s) \div 2 + i].val
                              = hist[s + i].val
                    /\ rb.head = rb.tail)
    /\ [][(IsURing /\ rb.head = rb.tail /\ op' = "push") =>
             /\ ~panicked'
             /\ \E item \in Items(npush) : uring_pop(rb').ret = Some(item)
             /\ uring_pop(rb').self.head = uring_pop(rb').self.tail]_vars

\* overflow checks on: the 8-bit ring was emptied with head = tail = 255 and
\* the push that followed panicked in `self.head += 1`
C4_Witness ==
    /\ kind = "uring" /\ param = U8_BITS
    /\ rb.checks
    /\ panicked /\ op = "push"
    /\ rb.head = IntMax(U8_BITS)
    /\ rb.tail = IntMax(U8_BITS)

\* C5: on a checked ring of capacity N >= 2, N-1 pushes from new() give
\* len() = N-1; after one further push the next pop returns the second
\* pushed value and no later pop returns the first pushed element.
C5_EvictOldest ==
    IsRing =>
        /\ (Len(hist) = Size(rb) - 1 /\ AllCalls(1, Len(hist), "push"))
              => ring_len(rb) = Size(rb) - 1
        /\ (Len(hist) > Size(rb) /\ AllCalls(1, Size(rb), "push"))
              => /\ hist[Size(rb) + 1].op = "pop"
                       => hist[Size(rb) + 1].val = hist[2].val
                 /\ (\A i \in 2 .. Len(hist) :
                        hist[i].op = "push" => hist[i].val # hist[1].val)
                       => \A i \in 1 .. Len(hist) :
                             hist[i].op = "pop" => hist[i].val # hist[1].val

\* N pushes, the first value pushed only once, then a pop of the second
C5_Witness ==
    /\ IsRing
    /\ Size(rb) = MaxCap
    /\ Len(hist) > Size(rb) + 1
    /\ AllCalls(1, Size(rb), "push")
    /\ AllCalls(Size(rb) + 1, Len(hist), "pop")
    /\ hist[1].val # hist[2].val
    /\ \A i \in 2 .. Size(rb) : hist[i].val = hist[2].val
    /\ hist[Size(rb) + 1].val = hist[2].val

\* C6: pop on an empty ring (head = tail), checked or unchecked, returns none
\* and leaves head, tail and the storage unchanged.
C6_PopEmpty ==
    [][(IsAnyRing /\ rb.head = rb.tail /\ op' = "pop")
          => (ret' = None /\ rb' = rb /\ ~panicked')]_vars

\* an 8-bit ring that was filled, cleared, and popped
C6_Witness ==
    /\ IsURing
    /\ op = "pop"
    /\ ret = None
    /\ npush > 0
    /\ rb.head = rb.tail
    /\ rb.head > 0

\* C7: push never fails: in every reachable state of a constructed ring or
\* manx buffer of ring.rs and manx.rs head is an index of the backing array
\* and no call has panicked, and a push into a full checked ring
\* (len = N-1) advances tail by one position with wraparound and leaves
\* len at N-1.
C7_PushNeverFails ==
    /\ []((~IsLRing /\ ~panicked) => IndexOk(rb, rb.head))
    /\ []((~IsLRing /\ op # "new") => ~panicked)
    /\ [][(IsRing /\ ring_len(rb) = Size(rb) - 1 /\ op' = "push")
             => /\ rb'.tail = (rb.tail + 1) % Size(rb)
                /\ ring_len(rb') = Size(rb) - 1
                /\ ~panicked']_vars

\* overflow checks on: the 256-th push into an unchecked ring with an
\* 8-bit index has failed, after it stored its item in slot 255
C7_Witness ==
    /\ kind = "uring" /\ param = U8_BITS
    /\ rb.checks
    /\ op = "push" /\ panicked
    /\ npush = IntMax(U8_BITS) + 1
    /\ rb.head = IntMax(U8_BITS)
    /\ rb.buffer[IntMax(U8_BITS)] = IntMax(U8_BITS)

\* C8: len() of a checked ring equals the number of consecutive pops that
\* return a value, does not underflow, and lies in 0 .. N-1.
C8_LenIsReadable ==
    IsRing =>
        /\ ring_len(rb) = Live(rb)
        /\ ring_len(rb) >= 0
        /\ ring_len(rb) <= Size(rb) - 1
        /\ rb.tail <= rb.head => rb.head - rb.tail >= 0

\* a full ring whose tail is ahead of its head
C8_Witness ==
    /\ IsRing
    /\ rb.tail > rb.head
    /\ rb.head > 0
    /\ ring_len(rb) = Size(rb) - 1
    /\ Size(rb) = MaxCap

\* C9: clear() sets tail to head, leaves head and every slot unchanged, and
\* right afterwards len() = 0 and pop returns none.
C9_Clear ==
    [][(IsAnyRing /\ op' = "clear")
          => /\ rb'.tail = rb.head
             /\ rb'.head = rb.head
             /\ rb'.buffer = rb.buffer
             /\ IF kind = "ring"
                THEN ring_len(rb') = 0 /\ ring_pop(rb').ret = None
                ELSE uring_len(rb') = 0 /\ uring_pop(rb').ret = None]_vars

\* a clear of a full checked ring, whose slots keep the pushed values
C9_Witness ==
    /\ IsRing
    /\ op = "clear"
    /\ Len(hist) = Size(rb) + 1
    /\ AllCalls(1, Size(rb), "push")
    /\ \A i \in DOMAIN rb.buffer : rb.buffer[i] # Default
    /\ rb.tail = rb.head

\* C10: a checked ring that has been cleared answers every later sequence
\* of push and pop calls as a freshly constructed ring does: each pop returns
\* the same result and len() is the same after every call.
C10_ClearedIsFresh ==
    (IsRing /\ twin.live) =>
        /\ ring_len(rb) = ring_len(twin.rb)
        /\ op = "pop" => ret = twin.ret

\* a value popped from a cleared ring whose indices and storage differ from
\* those of the fresh one
C10_Witness ==
    /\ IsRing /\ twin.live
    /\ op = "pop"
    /\ ret # None
    /\ rb.head # twin.rb.head
    /\ rb.tail # twin.rb.tail
    /\ rb.buffer # twin.rb.buffer

IsManx == kind = "manx" /\ ~panicked
IsUManx == kind = "umanx" /\ ~panicked
IsChecked == kind \in {"ring", "manx"}
IsUnchecked == kind \in {"uring", "umanx"}

\* every slot of the backing array of `self`, of n slots, holds the default
AllDefault(self, n) == self.buffer = [i \in 0 .. n - 1 |-> Default]

\* C11: new() of a checked ring or of a checked manx of capacity N panics
\* exactly when N < NSRB_LOWER_LIMIT or N > NSRB_UPPER_LIMIT, and then leaves
\* no object; otherwise the object has head = 0 (and tail = 0 for a ring)
\* and N slots that all hold the default value.
C11_NewLimits ==
    (IsChecked /\ op = "new") =>
        /\ panicked <=>
              (param < NSRB_LOWER_LIMIT \/ param > NSRB_UPPER_LIMIT)
        /\ panicked => rb = NoObject
        /\ ~panicked =>
              /\ rb.head = 0
              /\ kind = "ring" => rb.tail = 0
              /\ AllDefault(rb, param)

\* new() of a checked ring one slot above the upper limit has panicked
C11_Witness ==
    /\ kind = "ring"
    /\ op = "new"
    /\ param = NSRB_UPPER_LIMIT + 1
    /\ panicked

\* the run is recorded and holds push calls only: npush of them
PushesOnly == track /\ Len(hist) = npush

\* C12: on an unchecked ring with an 8-bit index, after K pushes and no
\* other call from new(): while K <= 255, no call has panicked, tail = 0
\* and head = K.  The 256-th push stores its item in slot 255 and then, in
\* a build without overflow checks, wraps head to 0 onto tail and advances
\* tail to 1: the ring is full, not empty, it holds 255 readable elements
\* and pop returns the second value pushed; in a build with overflow
\* checks it panics in `self.head += 1`, leaving head = 255 and tail = 0.
\* In neither build is head = tail = 0 after 256 pushes.
C12_WrapPushesTail ==
    (kind = "uring" /\ param = U8_BITS /\ PushesOnly) =>
        /\ npush <= IntMax(U8_BITS) =>
              ~panicked /\ rb.tail = 0 /\ rb.head = npush
        /\ npush = IntMax(U8_BITS) + 1 =>
              /\ rb.buffer[IntMax(U8_BITS)] = hist[npush].val[1]
              /\ IF rb.checks
                 THEN /\ panicked
                      /\ rb.head = IntMax(U8_BITS)
                      /\ rb.tail = 0
                 ELSE /\ ~panicked
                      /\ rb.head = 0
                      /\ rb.tail = 1
                      /\ uring_len(rb) = IntMax(U8_BITS)
                      /\ uring_pop(rb).ret = hist[2].val

\* 256 pushes and nothing else on the 8-bit ring, overflow checks off
C12_Witness ==
    /\ IsURing /\ param = U8_BITS /\ PushesOnly
    /\ ~rb.checks
    /\ npush = IntMax(U8_BITS) + 1
    /\ op = "push"

\* C12 as the specification states it: after exactly 256 pushes and no pop
\* head = tail = 0, no push having advanced tail, and pop returns none.
C12_Original ==
    (kind = "uring" /\ param = U8_BITS /\ PushesOnly
                   /\ npush = IntMax(U8_BITS) + 1) =>
        /\ ~panicked
        /\ rb.head = 0
        /\ rb.tail = 0
        /\ uring_pop(rb).ret = None

\* C13: after K pushes from new() the head of a manx is K mod capacity,
\* the capacity being $size for a checked manx and 2^bits for an unchecked
\* one: 4 after 14 pushes on 10 slots, 76 after 332 pushes with an 8-bit
\* index, 332 after 332 pushes with a 16-bit index.
C13_HeadIsCountModCap ==
    /\ IsManx => rb.head = npush % param
    /\ (kind = "umanx" /\ npush > 0) =>
          ~panicked /\ rb.head = npush % (2 ^ param)
    /\ (IsManx /\ param = TestCap /\ npush = 14) => rb.head = 4
    /\ (IsUManx /\ param = U8_BITS /\ npush = 332) => rb.head = 76
    /\ (IsUManx /\ param = U16_BITS /\ npush = 332) => rb.head = 332

\* overflow checks on: the 256-th push on the manx with an 8-bit index has
\* panicked in `self.head += 1` and head is still 255
C13_Witness ==
    /\ kind = "umanx" /\ param = U8_BITS
    /\ rb.checks
    /\ panicked /\ op = "push"
    /\ npush = IntMax(U8_BITS) + 1
    /\ rb.head = IntMax(U8_BITS)

IsAnyManx == IsManx \/ IsUManx

\* number of slots of the manx, from its macro parameter
ManxCap == IF kind = "manx" THEN param ELSE 2 ^ param

\* the value of the push at 0-based position p of the run: read from the
\* record of the calls, or the item of the test's loop when none is kept
PushedAt(p) ==
    IF track
    THEN SelectSeq(hist, LAMBDA c : c.op = "push")[p + 1].val[1]
    ELSE p + 1

\* what slot i holds after npush pushes: the default while no push had a
\* position p with p mod ManxCap = i, else the value of the last such
\* push, whose position is the largest p < npush of the form i + ManxCap*j
SlotValue(i) ==
    IF i >= npush
    THEN Default
    ELSE PushedAt(i + ManxCap * ((npush - 1 - i) \div ManxCap))

\* C14: slot i of a manx of C slots holds the most recently pushed value
\* among the pushes at 0-based positions p with p mod C = i, or the default
\* when there is none; after K >= C pushes the array holds exactly the last
\* C pushed values and no slot holds its initial default.  A push of an
\* unchecked manx that panics in `self.head += 1` has stored its item and
\* is counted.
C14_SlotHoldsLastOfItsClass ==
    (IsAnyManx \/ (kind = "umanx" /\ npush > 0)) =>
        /\ rb.buffer = [i \in 0 .. ManxCap - 1 |-> SlotValue(i)]
        /\ npush >= ManxCap =>
              /\ \A p \in npush - ManxCap .. npush - 1 :
                    rb.buffer[p % ManxCap] = PushedAt(p)
              /\ \A i \in DOMAIN rb.buffer : rb.buffer[i] # Default

\* the 8-bit manx after 332 pushes: slots 0..75 hold the values of the
\* second round, slots 76..255 still those of the first
C14_Witness ==
    /\ IsUManx /\ param = U8_BITS
    /\ npush = 332
    /\ rb.buffer[75] = 332
    /\ rb.buffer[76] = 77

\* C15: items() of a manx returns the whole backing array, slot 0 first and
\* slot C-1 last whatever the order of the pushes, and is read-only: head
\* and every slot are what they were before the call.
C15_ItemsReadOnly ==
    [][(kind \in {"manx", "umanx"} /\ op' = "items") =>
          /\ DOMAIN ret' = 0 .. ManxCap - 1
          /\ ret' = rb.buffer
          /\ rb' = rb
          /\ npush' = npush]_vars

\* items() of a wrapped manx of two slots after pushes of 1, 1, 2: slot 0
\* holds the newest value, slot 1 the one before it
C15_Witness ==
    /\ IsManx /\ param = 2
    /\ op = "items"
    /\ npush = 3
    /\ PushedAt(1) = 1 /\ PushedAt(2) = 2
    /\ ret[0] = 2 /\ ret[1] = 1
    /\ rb.head = 1

\* the recorded run is npush pushes followed by pops only
PushesThenPops ==
    /\ track
    /\ AllCalls(1, npush, "push")
    /\ AllCalls(npush + 1, Len(hist), "pop")

\* C16: on a checked ring of capacity N, after K >= N-1 pushes and no pops
\* from new(), the pops return the last N-1 pushed values in the order
\* they were pushed, and every pop after those returns none.
C16_DrainAfterOverflow ==
    (IsRing /\ PushesThenPops /\ npush >= param - 1) =>
        \A j \in 1 .. Len(hist) - npush :
            hist[npush + j].val =
                IF j <= param - 1
                THEN hist[npush - (param - 1) + j].val
                ELSE None

\* the ring of 10 slots given 0 .. 14 and drained: 6 first, 14 ninth, none
\* tenth
C16_Witness ==
    /\ IsRing /\ param = TestCap
    /\ PushesThenPops
    /\ npush = 15
    /\ Len(hist) = 25
    /\ hist[16].val = Some(6)
    /\ hist[24].val = Some(14)
    /\ ret = None

\* the values of the pushes of the run are 0, 1, 2, ... in this order
PushedFromZero == \A i \in 1 .. npush : hist[i].val = Some(i - 1)

\* C17: on a checked ring of capacity 10, pushing the 15 integers 0 .. 14
\* and then popping yields 6, 7, ..., 14 and then none; pushing the 16
\* integers 0 .. 15 yields 7, 8, ..., 15 and then none.
C17_TenSlotScenario ==
    (IsRing /\ param = TestCap /\ PushesThenPops /\ PushedFromZero) =>
        \A j \in 1 .. Len(hist) - npush :
            /\ npush = 15 =>
                  hist[15 + j].val = IF j <= 9 THEN Some(5 + j) ELSE None
            /\ npush = 16 =>
                  hist[16 + j].val = IF j <= 9 THEN Some(6 + j) ELSE None

\* the ring of 10 slots given 0 .. 15 and drained: 7 first, none tenth
C17_Witness ==
    /\ IsRing /\ param = TestCap
    /\ PushesThenPops /\ PushedFromZero
    /\ npush = 16
    /\ Len(hist) = 26
    /\ hist[17].val = Some(7)
    /\ hist[25].val = Some(15)
    /\ ret = None

\* C17 as the specification states it: pushing the 16 integers 0 .. 15 on
\* the ring of capacity 10 and popping yields 6, 7, ..., 14 and then none.
C17_Original ==
    (IsRing /\ param = TestCap /\ PushesThenPops /\ PushedFromZero
            /\ npush = 16) =>
        \A j \in 1 .. Len(hist) - npush :
            hist[16 + j].val = IF j <= 9 THEN Some(5 + j) ELSE None

\* the largest e with 2^e <= n, for n >= 1
RECURSIVE Log2(_)
Log2(n) == IF n < 2 THEN 0 ELSE 1 + Log2(n \div 2)

\* C18: the only validation of new() of an unchecked ring or manx is the
\* assertion <$int>::MAX <= NSRB_UPPER_LIMIT: new() panics exactly when
\* 2^bits - 1 exceeds NSRB_UPPER_LIMIT, that is when 2^bits > UPPER + 1,
\* that is when bits > Log2(UPPER + 1); it leaves no object then, and
\* otherwise an object of 2^bits default slots with head = 0 (tail = 0).
C18_UncheckedNewAssert ==
    (IsUnchecked /\ op = "new") =>
        /\ panicked <=> param > Log2(NSRB_UPPER_LIMIT + 1)
        /\ panicked => rb = NoObject
        /\ ~panicked =>
              /\ rb.head = 0
              /\ kind = "uring" => rb.tail = 0
              /\ AllDefault(rb, 2 ^ param)

\* new() of an unchecked manx with a 32-bit index has panicked
C18_Witness ==
    /\ kind = "umanx"
    /\ op = "new"
    /\ param = U32_BITS
    /\ panicked

\* C18 as the specification states it: new() of an unchecked buffer fails
\* exactly when its capacity 2^bits exceeds NSRB_UPPER_LIMIT, that is when
\* bits > Log2(UPPER).
C18_Original ==
    (IsUnchecked /\ op = "new") =>
        (panicked <=> param > Log2(NSRB_UPPER_LIMIT))

\* C19: with the default limits (2, 65535), new() of an unchecked ring or
\* manx succeeds for an 8-bit and for a 16-bit index type and panics for a
\* 32-bit one.
C19_DefaultLimits ==
    (IsUnchecked /\ op = "new"
         /\ NSRB_LOWER_LIMIT = 2 /\ NSRB_UPPER_LIMIT = 65535) =>
        /\ param \in {U8_BITS, U16_BITS} => ~panicked
        /\ param = U32_BITS => panicked

\* new() of an unchecked ring with an 8-bit index has returned a ring
C19_Witness ==
    /\ kind = "uring"
    /\ op = "new"
    /\ param = U8_BITS
    /\ ~panicked
    /\ Size(rb) = IntMax(U8_BITS) + 1

\* C20: an unchecked ring with a w-bit index and a checked ring of capacity
\* 2^w, constructed together and given the same calls, have the same head,
\* the same tail and the same storage after every call, every pop returns
\* the same result on both, and a call fails on neither.  (w = 8: new() of
\* a checked ring refuses the 2^16 slots that w = 16 asks for.)
C20_UncheckedIsChecked ==
    (kind = "uring" /\ twin.live) =>
        /\ Size(twin.rb) = 2 ^ param
        /\ ~panicked
        /\ rb.head = twin.rb.head
        /\ rb.tail = twin.rb.tail
        /\ rb.buffer = twin.rb.buffer
        /\ op = "pop" => ret = twin.ret

\* overflow checks on: the 256-th push has wrapped the head of the checked
\* ring of 256 slots to 0 and pushed its tail to 1, and has panicked on the
\* unchecked ring, whose head is still 255 and whose tail is still 0
C20_Witness ==
    /\ kind = "uring" /\ param = U8_BITS
    /\ twin.live
    /\ rb.checks /\ panicked
    /\ op = "push"
    /\ rb.buffer = twin.rb.buffer
    /\ rb.head = IntMax(U8_BITS) /\ twin.rb.head = 0
    /\ rb.tail = 0 /\ twin.rb.tail = 1

\* C21: the advance of the checked buffers, applied at every index i of a
\* buffer of capacity N >= 2, gives (i + 1) mod N: by push_tail for the
\* tail of a ring, by push_head for the head of a ring, by push for the
\* head of a manx.  It moves the index by one and wraps N-1 to 0.
C21_AdvanceIsModulo ==
    /\ (IsRing /\ param <= TestCap) =>
          \A i \in 0 .. param - 1 :
              /\ push_tail([rb EXCEPT !.tail = i]).tail = (i + 1) % param
              /\ push_head([rb EXCEPT !.head = i]).head = (i + 1) % param
              /\ ring_push([rb EXCEPT !.head = i], Default).head
                    = (i + 1) % param
    /\ (IsManx /\ param <= TestCap) =>
          \A i \in 0 .. param - 1 :
              manx_push([rb EXCEPT !.head = i], Default).head
                  = (i + 1) % param

\* a pop has just wrapped the tail of a ring from N-1 to 0, after a push
\* had wrapped its head
C21_Witness ==
    /\ IsRing /\ param = MaxCap
    /\ op = "pop"
    /\ ret # None
    /\ rb.tail = 0
    /\ rb.head = 0
    /\ npush = param

\* C22: a pop on a ring (checked or unchecked) with tail # head returns
\* the element stored at the tail index held before the call and advances
\* tail by one position with wraparound; a pop on a ring with tail = head
\* returns none and leaves tail; no pop changes head or a storage slot,
\* and no pop fails.
C22_PopFrame ==
    [][(IsAnyRing /\ op' = "pop") =>
          /\ ~panicked'
          /\ rb.tail # rb.head =>
                /\ ret' = Some(rb.buffer[rb.tail])
                /\ rb'.tail = (rb.tail + 1) % Size(rb)
          /\ rb.tail = rb.head =>
                /\ ret' = None
                /\ rb'.tail = rb.tail
          /\ rb'.head = rb.head
          /\ rb'.buffer = rb.buffer]_vars

\* the ring of 10 slots given 0 .. 14: the fourth pop has returned 9 from
\* slot 9 and wrapped tail to 0
C22_Witness ==
    /\ IsRing /\ param = TestCap
    /\ npush = 15
    /\ op = "pop"
    /\ ret = Some(9)
    /\ rb.tail = 0
    /\ rb.head = 5
    /\ rb.buffer[9] = 9

\* the position of the last clear among the calls 1 .. n-1 of the run,
\* 0 when there is none
RECURSIVE LastClear(_)
LastClear(n) ==
    IF n <= 1 THEN 0
    ELSE IF hist[n - 1].op = "clear" THEN n - 1 ELSE LastClear(n - 1)

\* C23: every pop made after a clear() of a checked ring returns what the
\* abstract queue returns that was emptied at the clear and has since been
\* given the later pushes and pops only: a value pushed after the clear,
\* or none when no such value is left, although the values pushed before
\* the clear are still in their slots.
C23_StaleUnreachable ==
    IsRing =>
        \A n \in 1 .. Len(hist) :
            (hist[n].op = "pop" /\ LastClear(n) > 0) =>
                /\ hist[n].val = FifoPop(n, Size(rb))
                /\ hist[n].val # None =>
                      \E m \in LastClear(n) + 1 .. n - 1 :
                          hist[m] = Call("push", hist[n].val)
                /\ (\A m \in LastClear(n) + 1 .. n - 1 :
                        hist[m].op # "push") => hist[n].val = None

\* push 1, clear, push 2, pop: the pop has returned 2 while slot 0 still
\* holds the 1 pushed before the clear
C23_Witness ==
    /\ IsRing
    /\ Len(hist) = 4
    /\ hist[1] = Call("push", Some(1))
    /\ hist[2].op = "clear"
    /\ hist[3] = Call("push", Some(2))
    /\ hist[4] = Call("pop", Some(2))
    /\ rb.buffer[0] = 1

\* the checked manx of the capacity of rb that has been given the values
\* of the pushes among the first n calls of the run, in their order
RECURSIVE ManxAfter(_)
ManxAfter(n) ==
    IF n = 0
    THEN manx_new(param)
    ELSE IF hist[n].op = "push"
         THEN manx_push(ManxAfter(n - 1), hist[n].val[1])
         ELSE ManxAfter(n - 1)

\* C24: a checked ring, given pushes with pops interleaved at will, and a
\* checked manx of the same capacity given the same pushed values have the
\* same head and the same storage after every call.
C24_ManxIsRingWithoutTail ==
    (IsRing /\ PushPopOnly) =>
        /\ rb.head = ManxAfter(Len(hist)).head
        /\ rb.buffer = ManxAfter(Len(hist)).buffer

\* a ring that has wrapped and lost its oldest value, with a pop made
\* between its pushes
C24_Witness ==
    /\ IsRing /\ PushPopOnly
    /\ op = "push"
    /\ npush > param
    /\ \E n \in 1 .. Len(hist) : hist[n].op = "pop" /\ hist[n].val # None
    /\ rb.head = 1
    /\ rb.tail # 0
    /\ ManxAfter(Len(hist)).head = 1

\* C25: right after any push on a ring (checked of capacity N >= 2, or
\* unchecked) head # tail and the pop that would follow returns a value;
\* so an unchecked ring with a w-bit index never holds more than 2^w - 1
\* readable elements.
C25_PushLeavesNonEmpty ==
    /\ (IsRing /\ op = "push") =>
          /\ rb.head # rb.tail
          /\ ring_pop(rb).ret # None
    /\ (kind = "uring" /\ op = "push") =>
          /\ rb.head # rb.tail
          /\ uring_pop(rb).ret # None
    /\ IsURing =>
          /\ uring_len(rb) <= 2 ^ param - 1
          /\ uring_len(rb) = 2 ^ param - 1 =>
                rb.tail = wrapping_inc(rb.head, param)

\* overflow checks on: a push on the 8-bit ring has left it empty, having
\* panicked before it moved head off tail; the pop that follows returns
\* none
C25_Witness ==
    /\ kind = "uring" /\ param = U8_BITS
    /\ op = "push" /\ panicked
    /\ rb.head = rb.tail
    /\ uring_len(rb) = 0
    /\ uring_pop(rb).ret = None

\* the item given to the push that has led to the next state
PushedItem ==
    IF track THEN hist'[Len(hist')].val[1] ELSE CHOOSE i \in Items(npush) : TRUE

\* len() of the ring before the call
LenBefore == IF kind = "ring" THEN ring_len(rb) ELSE uring_len(rb)

\* C26: a push on a ring (checked or unchecked) stores the item in the slot
\* at the head index held before the call and leaves every other slot as
\* it was; it moves tail only when the ring was full before the call
\* (len = capacity - 1), and then by one position with wraparound.  This
\* holds of a push that panics too; a push that returns moves tail
\* whenever the ring was full.
C26_PushFrame ==
    [][(IsAnyRing /\ op' = "push") =>
          /\ rb'.buffer = [rb.buffer EXCEPT ![rb.head] = PushedItem]
          /\ rb'.tail # rb.tail =>
                /\ LenBefore = Size(rb) - 1
                /\ rb'.tail = (rb.tail + 1) % Size(rb)
          /\ (~panicked' /\ LenBefore = Size(rb) - 1) =>
                rb'.tail = (rb.tail + 1) % Size(rb)]_vars

\* the tenth push on the ring of 10 slots: it has filled slot 9, wrapped
\* head to 0 and moved tail to 1
C26_Witness ==
    /\ IsRing /\ param = TestCap
    /\ op = "push"
    /\ npush = 10
    /\ rb.buffer[9] = 9
    /\ rb.head = 0
    /\ rb.tail = 1

\* the ring after k consecutive calls of pop
RECURSIVE PopN(_, _)
PopN(self, k) == IF k = 0 THEN self ELSE PopN(ring_pop(self).self, k - 1)

\* C27: draining a checked ring of capacity N terminates: from every
\* reachable state, after N-1 calls of pop with no push between them the
\* next pop returns none, and so does the one after it; tail has stopped
\* at head, which has not moved.  In the recorded runs, the last of N
\* consecutive pops has returned none.
C27_DrainTerminates ==
    (IsRing /\ param <= TestCap) =>
        /\ ring_pop(PopN(rb, param - 1)).ret = None
        /\ ring_pop(PopN(rb, param)).ret = None
        /\ PopN(rb, param - 1).tail = rb.head
        /\ PopN(rb, param - 1).head = rb.head
        /\ (Len(hist) >= param
               /\ AllCalls(Len(hist) - param + 1, Len(hist), "pop"))
              => hist[Len(hist)].val = None

\* the ring of 10 slots filled with 9 values and drained: nine pops have
\* returned a value, the tenth none
C27_Witness ==
    /\ IsRing /\ param = TestCap
    /\ PushesThenPops
    /\ npush = param - 1
    /\ Len(hist) = 2 * param - 1
    /\ hist[Len(hist) - 1].val = Some(param - 2)
    /\ op = "pop"
    /\ ret = None


\* C28: in the unchecked ring of lib.rs with $size_type = u8, every value
\* that head or tail takes in a reachable state is an index of the backing
\* array, so that no push and no pop indexes out of bounds.
C28_LegacyIndexValid ==
    IsLRing =>
        /\ IndexOk(rb, rb.head)
        /\ IndexOk(rb, rb.tail)
        /\ ~panicked

\* the 256-th push on the ring of lib.rs has indexed slot 255 of an array
\* of 255 slots
C28_Witness ==
    /\ IsLRing
    /\ panicked
    /\ op = "push"
    /\ npush = IntMax(U8_BITS) + 1
    /\ rb.head = IntMax(U8_BITS)
    /\ Size(rb) = IntMax(U8_BITS)
====
